---- MODULE Spec2Model ----
(***************************************************************************)
(* A model of GuitarHeroController (src/main.py): the note resolver        *)
(* find_closest_note, the action controller trigger_action /               *)
(* release_actions, the per-frame callback process_audio and the control   *)
(* thread run().                                                           *)
(*                                                                         *)
(* Frequencies are integers in Hz.  Strings are sequences of symbols; a    *)
(* symbol is either the underscore "_" or an underscore-free word, so that *)
(* str.split('_') is computed symbol by symbol.                            *)
(***************************************************************************)
EXTENDS Integers, Sequences, FiniteSets, TLC

VARIABLES
    config,          \* self.config["note_bindings"].values(), in file order
    frame,           \* the spectrum of a frame and what process_audio finds in it
    note_map,        \* self.note_map: the bindings, in dict order
    active_actions,  \* self.active_actions
    events,          \* the calls received by the injector, in order
    pc,              \* position of the control thread in run()
    stream,          \* state of self.stream
    cb,              \* position of the audio callback
    clock,           \* time, in frame periods
    forced,          \* number of runs of the release in run()'s handler
    freq,            \* the frequency of the last frame
    detected_note    \* the note the last frame resolved to

vars == <<config, frame, note_map, active_actions, events, pc, stream, cb, clock, forced,
          freq, detected_note>>

----------------------------------------------------------------------------
(* Bounds of the model *)

MaxBindings == 2
MaxFrames == 3
MinInterval == 3
ResolverMaxBindings == 3
MaxLevel == 3

----------------------------------------------------------------------------
(* Program constants *)

MinFreq == 50
MaxFreq == 1000
HarmonicTol == 10
\* self.detection_thresh, read from the configuration
DetectionThresh == 2
\* abs(cents) < 50  <=>  ratio < 2^(1/24); CentsTolNum/CentsTolDen is a
\* continued-fraction convergent of 2^(1/24) that decides the comparison
\* exactly for every pair of integers up to 2100.
CentsTolNum == 134607
CentsTolDen == 130775

None == <<>>

\* The non-finite values of a float, as numbers outside every frequency the
\* model uses: nan, +inf, -inf.  PosInf and NegInf compare like every other
\* number; a comparison with NaN is false (FLess).
NaN == 2000000
PosInf == 1000000
NegInf == -1000000

NonFinite == {NaN, PosInf, NegInf}

\* a < b on floats
FLess(a, b) == a # NaN /\ b # NaN /\ a < b

Abs(x) == IF x < 0 THEN 0 - x ELSE x
Max(a, b) == IF a < b THEN b ELSE a
Min(a, b) == IF a < b THEN a ELSE b

----------------------------------------------------------------------------
(* find_closest_note *)

\* list(self.note_map.keys())
Frequencies(nm) == [i \in 1..Len(nm) |-> nm[i].freq]

\* the list [2, 3, 0.5] as numerator/denominator pairs
Harmonics == << <<2, 1>>, <<3, 1>>, <<1, 2>> >>

HarmonicsNoHalf == << <<2, 1>>, <<3, 1>> >>

\* abs(freq - note_freq*harmonic) < 10 for some harmonic of the list
HarmonicMatchNoHalf(note_freq, f) ==
    \E k \in 1..Len(HarmonicsNoHalf) :
        Abs(HarmonicsNoHalf[k][2] * f - note_freq * HarmonicsNoHalf[k][1])
            < HarmonicTol * HarmonicsNoHalf[k][2]

HarmonicMatch(note_freq, f) ==
    \E k \in 1..Len(Harmonics) :
        Abs(Harmonics[k][2] * f - note_freq * Harmonics[k][1])
            < HarmonicTol * Harmonics[k][2]

\* abs(cents[i]) < abs(cents[j]) with cents = 1200*log2(frequencies/freq):
\* the order of abs(log2(a/f)) is the order of max(a,f)/min(a,f)
CentsLess(a, b, f) ==
    Max(a, f) * Min(b, f) < Max(b, f) * Min(a, f)

\* abs(cents) < 50
CentsWithinTol(a, f) ==
    /\ Max(a, f) <= 2100
    /\ Max(a, f) * CentsTolDen < CentsTolNum * Min(a, f)

\* np.argmin(np.abs(cents)): the first index of the minimum
RECURSIVE ArgMinFrom(_, _, _, _)
ArgMinFrom(fs, f, i, best) ==
    IF i > Len(fs) THEN best
    ELSE IF CentsLess(fs[i], fs[best], f)
         THEN ArgMinFrom(fs, f, i + 1, i)
         ELSE ArgMinFrom(fs, f, i + 1, best)

\* an argmin that always answers the first index
ClosestIdxFirst(fs, f) == 1

ClosestIdx(fs, f) == ArgMinFrom(fs, f, 2, 1)

\* the loop over enumerate(frequencies): the first binding with a harmonic hit
RECURSIVE HarmonicLoop(_, _, _)
HarmonicLoop(fs, f, i) ==
    IF i > Len(fs) THEN None
    ELSE IF HarmonicMatch(fs[i], f) THEN <<fs[i]>>
         ELSE HarmonicLoop(fs, f, i + 1)

\* a resolver in which the nearest-cents match wins over the harmonic loop
FindClosestNoteCentsFirst(nm, f) ==
    LET fs == Frequencies(nm) IN
    IF Len(fs) = 0 \/ f < MinFreq \/ f > MaxFreq THEN None
    ELSE IF CentsWithinTol(fs[ClosestIdx(fs, f)], f)
         THEN <<fs[ClosestIdx(fs, f)]>>
         ELSE HarmonicLoop(fs, f, 1)

\* a resolver whose range check also rejects the two bounds themselves
FindClosestNoteExclusiveRange(nm, f) ==
    LET fs == Frequencies(nm) IN
    IF Len(fs) = 0 \/ f <= MinFreq \/ f >= MaxFreq THEN None
    ELSE LET h == HarmonicLoop(fs, f, 1) IN
         IF h # None THEN h
         ELSE IF CentsWithinTol(fs[ClosestIdx(fs, f)], f)
              THEN <<fs[ClosestIdx(fs, f)]>>
              ELSE None

\* a resolver that takes the argmin of a nan frequency for a match
FindClosestNoteNaNFirst(nm, f) ==
    LET fs == Frequencies(nm) IN
    IF Len(fs) = 0 \/ FLess(f, MinFreq) \/ FLess(MaxFreq, f) THEN None
    ELSE IF f = NaN THEN <<fs[1]>>
    ELSE LET h == HarmonicLoop(fs, f, 1) IN
         IF h # None THEN h
         ELSE IF CentsWithinTol(fs[ClosestIdx(fs, f)], f)
              THEN <<fs[ClosestIdx(fs, f)]>>
              ELSE None

\* With freq = nan both range comparisons are false, cents is all nan,
\* argmin is 0, every abs(freq - note_freq*harmonic) < 10 is false and
\* abs(cents[0]) < 50 is false: the answer is None.
FindClosestNote(nm, f) ==
    LET fs == Frequencies(nm) IN
    IF Len(fs) = 0 \/ FLess(f, MinFreq) \/ FLess(MaxFreq, f) THEN None
    ELSE IF f = NaN THEN None
    ELSE LET h == HarmonicLoop(fs, f, 1) IN
         IF h # None THEN h
         ELSE IF CentsWithinTol(fs[ClosestIdx(fs, f)], f)
              THEN <<fs[ClosestIdx(fs, f)]>>
              ELSE None

----------------------------------------------------------------------------
(* Strings and the injector *)

Key == <<"key">>
Mouse == <<"mouse">>
Underscore == "_"

\* f"{action['type']}_{action['action']}"
ActionId(b) == b.type \o <<Underscore>> \o b.action

\* str.split('_')
RECURSIVE SplitFrom(_, _, _, _)
SplitFrom(s, i, cur, acc) ==
    IF i > Len(s) THEN Append(acc, cur)
    ELSE IF s[i] = Underscore
         THEN SplitFrom(s, i + 1, <<>>, Append(acc, cur))
         ELSE SplitFrom(s, i + 1, Append(cur, s[i]), acc)

Split(s) == SplitFrom(s, 1, <<>>, <<>>)

\* Button.left if name == 'left' else Button.right
ButtonOf(name) == IF name = <<"left">> THEN <<"Button.left">> ELSE <<"Button.right">>

\* one call of the injector: keyboard.press/release(target) or
\* mouse.press/release(target), at time t
Event(op, dev, target, t) == [op |-> op, dev |-> dev, target |-> target, t |-> t]

\* self.note_map[freq]
RECURSIVE LookupFrom(_, _, _)
LookupFrom(nm, f, i) ==
    IF nm[i].freq = f THEN nm[i] ELSE LookupFrom(nm, f, i + 1)

Lookup(nm, f) == LookupFrom(nm, f, 1)

\* the injector calls of trigger_action for a binding that is not active
PressEvents(b, t) ==
    IF b.type = Key THEN <<Event("press", "keyboard", b.action, t)>>
    ELSE IF b.type = Mouse THEN <<Event("press", "mouse", ButtonOf(b.action), t)>>
    ELSE <<>>

\* the injector calls of one iteration of the loop of release_actions
ReleaseEvents(action_id, t) ==
    LET parts == Split(action_id) IN
    IF parts[1] = Key THEN <<Event("release", "keyboard", parts[2], t)>>
    ELSE IF parts[1] = Mouse THEN <<Event("release", "mouse", ButtonOf(parts[2]), t)>>
    ELSE <<>>

\* trigger_action: the new active_actions and the events sent
\* a trigger that keeps only the new action asserted
TriggerActiveExclusive(nm, act, f) ==
    {ActionId(Lookup(nm, f))}

TriggerActive(nm, act, f) ==
    act \cup {ActionId(Lookup(nm, f))}

\* a trigger that presses whether or not the action is already active
TriggerEventsAlways(nm, act, f, t) ==
    PressEvents(Lookup(nm, f), t)

TriggerEvents(nm, act, f, t) ==
    IF ActionId(Lookup(nm, f)) \notin act THEN PressEvents(Lookup(nm, f), t)
    ELSE <<>>

\* release_actions: list(self.active_actions) in some iteration order
RECURSIVE ReleaseAll(_, _)
ReleaseAll(order, t) ==
    IF order = <<>> THEN <<>>
    ELSE ReleaseEvents(Head(order), t) \o ReleaseAll(Tail(order), t)

\* the orders in which a set can be iterated
Orders(S) ==
    {o \in [1..Cardinality(S) -> S] : \A i, j \in 1..Cardinality(S) : i # j => o[i] # o[j]}

----------------------------------------------------------------------------
(* Configuration *)

Binding(f, ty, a) == [freq |-> f, type |-> ty, action |-> a]

\* the note bindings a configuration file may list
Bindings ==
    { Binding(82, Key, <<"w">>),
      Binding(110, Key, <<"s">>),
      Binding(110, Mouse, <<"left">>),
      Binding(147, Key, <<Underscore>>),
      Binding(196, Key, <<"w">>),
      Binding(330, Mouse, <<"right">>) }

RECURSIVE SeqsUpTo(_, _)
SeqsUpTo(S, n) ==
    IF n = 0 THEN {<<>>}
    ELSE LET shorter == SeqsUpTo(S, n - 1) IN
         shorter \cup {Append(q, x) : q \in shorter, x \in S}

Distinct(q) == \A i, j \in 1..Len(q) : i # j => q[i] # q[j]

\* config["note_bindings"].values(): the bindings in file order
Configs == {q \in SeqsUpTo(Bindings, MaxBindings) : Distinct(q)}

\* {params["freq"]: params for params in ...}: a later binding of a
\* frequency replaces the value and keeps the position of the first
RECURSIVE DictPut(_, _, _)
DictPut(nm, b, i) ==
    IF i > Len(nm) THEN Append(nm, b)
    ELSE IF nm[i].freq = b.freq THEN [nm EXCEPT ![i] = b]
         ELSE DictPut(nm, b, i + 1)

RECURSIVE LoadFrom(_, _, _)
LoadFrom(cfg, i, nm) ==
    IF i > Len(cfg) THEN nm ELSE LoadFrom(cfg, i + 1, DictPut(nm, cfg[i], 1))

LoadConfig(cfg) == LoadFrom(cfg, 1, <<>>)

----------------------------------------------------------------------------
(* The controller: run() on the control thread, process_audio on the audio *)
(* thread                                                                  *)

\* peak powers around the detection threshold
Powers == {DetectionThresh - 1, DetectionThresh, DetectionThresh + 1}

\* refined frequencies of frames
FrameFreqs == {49, 82, 110, 147, 196, 330, 500} \cup NonFinite

\* no spectrum is looked at
NoFrame == <<>>

Init ==
    /\ \E cfg \in Configs : config = cfg /\ note_map = LoadConfig(cfg)
    /\ frame = NoFrame
    /\ active_actions = {}
    /\ events = <<>>
    /\ pc = "start"
    /\ stream = "created"
    /\ cb = "idle"
    /\ clock = 0
    /\ forced = 0
    /\ freq = 0
    /\ detected_note = None

\* run(): with self.stream: enters the context, the stream starts
StartStream ==
    /\ pc = "start"
    /\ pc' = "loop"
    /\ stream' = "active"
    /\ UNCHANGED <<config, frame, note_map, active_actions, events, cb, clock, forced, freq,
                   detected_note>>

\* the audio subsystem invokes the callback for the next frame
CallbackEnter ==
    /\ stream = "active"
    /\ cb = "idle"
    /\ clock < MaxFrames
    /\ cb' = "running"
    /\ clock' = clock + 1
    /\ UNCHANGED <<config, frame, note_map, active_actions, events, pc, stream, forced, freq,
                   detected_note>>

\* process_audio, lines 86-88 and 104-105: release_actions() and return
FrameRelease(f) ==
    /\ \E order \in Orders(active_actions) :
           events' = events \o ReleaseAll(order, clock)
    /\ active_actions' = {}
    /\ freq' = f
    /\ detected_note' = None

\* process_audio, lines 101-103: trigger_action(detected_note)
FrameTrigger(f, note) ==
    /\ events' = events \o TriggerEvents(note_map, active_actions, note[1], clock)
    /\ active_actions' = TriggerActive(note_map, active_actions, note[1])
    /\ freq' = f
    /\ detected_note' = note

\* process_audio for a frame of peak power p and refined frequency f
ProcessAudio(p, f) ==
    /\ cb = "running"
    /\ IF p < DetectionThresh THEN FrameRelease(f)
       ELSE IF FindClosestNote(note_map, f) # None
            THEN FrameTrigger(f, FindClosestNote(note_map, f))
            ELSE FrameRelease(f)
    /\ cb' = "idle"
    /\ UNCHANGED <<config, frame, note_map, pc, stream, clock, forced>>

\* Ctrl+C: KeyboardInterrupt is raised in the loop of run()
KeyboardInterrupt ==
    /\ pc = "loop"
    /\ pc' = "interrupted"
    /\ UNCHANGED <<config, frame, note_map, active_actions, events, stream, cb, clock, forced,
                   freq, detected_note>>

\* a stream exit that does not wait for the running callback
StreamExitNoWait ==
    /\ pc = "interrupted"
    /\ stream' = "closed"
    /\ pc' = "handler"
    /\ UNCHANGED <<config, frame, note_map, active_actions, events, cb, clock, forced, freq,
                   detected_note>>

\* the with block is left: the stream is closed, which waits for a running
\* callback to return
StreamExit ==
    /\ pc = "interrupted"
    /\ cb = "idle"
    /\ stream' = "closed"
    /\ pc' = "handler"
    /\ UNCHANGED <<config, frame, note_map, active_actions, events, cb, clock, forced, freq,
                   detected_note>>

\* except KeyboardInterrupt: self.release_actions()
RunRelease ==
    /\ pc = "handler"
    /\ \E order \in Orders(active_actions) :
           events' = events \o ReleaseAll(order, clock)
    /\ active_actions' = {}
    /\ forced' = forced + 1
    /\ pc' = "done"
    /\ UNCHANGED <<config, frame, note_map, stream, cb, clock, freq, detected_note>>

Next ==
    \/ StartStream
    \/ CallbackEnter
    \/ \E p \in Powers, f \in FrameFreqs : ProcessAudio(p, f)
    \/ KeyboardInterrupt
    \/ StreamExit
    \/ RunRelease

Spec == Init /\ [][Next]_vars

----------------------------------------------------------------------------
(* The controller with an injector whose calls may raise *)

\* a call of the injector that raised
Failed(e) ==
    [e EXCEPT !.op = IF e.op = "press" THEN "press_failed" ELSE "release_failed"]

\* the ids of the first n elements of an iteration order
Prefix(order, n) == {order[i] : i \in 1..n}

\* release_actions in which the call for the k-th id raises: the ids before
\* it are released and removed, the loop is left by the exception
ReleaseUntilFailure(order, k, t) ==
    ReleaseAll(SubSeq(order, 1, k - 1), t) \o <<Failed(ReleaseEvents(order[k], t)[1])>>

\* trigger_action in which the press raises: line 145 is not reached
FrameTriggerFail(f, note) ==
    /\ ActionId(Lookup(note_map, note[1])) \notin active_actions
    /\ events' = Append(events, Failed(PressEvents(Lookup(note_map, note[1]), clock)[1]))
    /\ active_actions' = active_actions
    /\ freq' = f
    /\ detected_note' = note

\* release_actions, called by process_audio, in which one release raises
FrameReleaseFail(f) ==
    /\ \E order \in Orders(active_actions) : \E k \in 1..Len(order) :
           /\ events' = events \o ReleaseUntilFailure(order, k, clock)
           /\ active_actions' = active_actions \ Prefix(order, k - 1)
    /\ freq' = f
    /\ detected_note' = None

\* process_audio in which a call of the injector raises: the exception
\* leaves the callback, and the audio library does not call it again
ProcessAudioFail(p, f) ==
    /\ cb = "running"
    /\ IF p < DetectionThresh THEN FrameReleaseFail(f)
       ELSE IF FindClosestNote(note_map, f) # None
            THEN FrameTriggerFail(f, FindClosestNote(note_map, f))
            ELSE FrameReleaseFail(f)
    /\ cb' = "idle"
    /\ stream' = "aborted"
    /\ UNCHANGED <<config, frame, note_map, pc, clock, forced>>

\* except KeyboardInterrupt: self.release_actions() in which one release
\* raises: the exception leaves run()
RunReleaseFail ==
    /\ pc = "handler"
    /\ \E order \in Orders(active_actions) : \E k \in 1..Len(order) :
           /\ events' = events \o ReleaseUntilFailure(order, k, clock)
           /\ active_actions' = active_actions \ Prefix(order, k - 1)
    /\ forced' = forced + 1
    /\ pc' = "crashed"
    /\ UNCHANGED <<config, frame, note_map, stream, cb, clock, freq, detected_note>>

FailNext ==
    \/ StartStream
    \/ CallbackEnter
    \/ \E p \in Powers, f \in FrameFreqs : ProcessAudio(p, f)
    \/ \E p \in Powers, f \in FrameFreqs : ProcessAudioFail(p, f)
    \/ KeyboardInterrupt
    \/ StreamExit
    \/ RunRelease
    \/ RunReleaseFail

FailSpec == Init /\ [][FailNext]_vars

----------------------------------------------------------------------------
(* The resolver alone: find_closest_note applied to every frequency        *)

ResolverFreqs == {55, 110, 116, 220, 500}

DetFreqs == 40..1010

ResolverConfigs ==
    {q \in SeqsUpTo({Binding(f, Key, <<"w">>) : f \in ResolverFreqs},
                    ResolverMaxBindings) : Distinct(q)}

ResolverInit ==
    /\ \E cfg \in ResolverConfigs : config = cfg /\ note_map = LoadConfig(cfg)
    /\ frame = NoFrame
    /\ active_actions = {}
    /\ events = <<>>
    /\ pc = "resolver"
    /\ stream = "created"
    /\ cb = "idle"
    /\ clock = 0
    /\ forced = 0
    /\ freq = 0
    /\ detected_note = None

Resolve(f) ==
    /\ pc = "resolver"
    /\ pc' = "resolved"
    /\ freq' = f
    /\ detected_note' = FindClosestNote(note_map, f)
    /\ UNCHANGED <<config, frame, note_map, active_actions, events, stream, cb, clock, forced>>

ResolverNext == \E f \in DetFreqs : Resolve(f)

ResolverSpec == ResolverInit /\ [][ResolverNext]_vars

----------------------------------------------------------------------------
(* Claims about the resolver, checked under ResolverSpec *)

Resolved == pc = "resolved" /\ freq >= MinFreq /\ freq <= MaxFreq

\* x is less than 10 Hz away from note_freq * n / d
Near(note_freq, n, d, x) == Abs(d * x - note_freq * n) < HarmonicTol * d

\* the bindings, by position, with 2f, 3f or f/2 less than 10 Hz from x
OvertoneHits(x) ==
    {i \in 1..Len(note_map) :
        \/ Near(note_map[i].freq, 2, 1, x)
        \/ Near(note_map[i].freq, 3, 1, x)
        \/ Near(note_map[i].freq, 1, 2, x)}

\* the same with the fundamental f itself among the tested multiples
FundamentalOrOvertoneHits(x) ==
    OvertoneHits(x) \cup {i \in 1..Len(note_map) : Near(note_map[i].freq, 1, 1, x)}

First(S) == CHOOSE i \in S : \A j \in S : i <= j

\* C9 as claimed: an in-range frequency less than 10 Hz from f, 2f, 3f or
\* f/2 of some binding resolves to the first such binding, never to none.
C9_AsClaimed ==
    Resolved /\ FundamentalOrOvertoneHits(freq) # {}
        => detected_note = <<note_map[First(FundamentalOrOvertoneHits(freq))].freq>>

\* C9 amended: an in-range frequency less than 10 Hz from 2f, 3f or f/2 of
\* some binding resolves to the first such binding in binding order, never to
\* none; a frequency less than 10 Hz from a binding's own fundamental f
\* resolves to a binding when it is also less than 50 cents from f.
C9_OvertoneFirstHit ==
    Resolved =>
        /\ OvertoneHits(freq) # {}
              => detected_note = <<note_map[First(OvertoneHits(freq))].freq>>
        /\ \A i \in 1..Len(note_map) :
              Near(note_map[i].freq, 1, 1, freq) /\ CentsWithinTol(note_map[i].freq, freq)
                  => detected_note # None

\* an overtone hit of a binding that is neither first in order nor nearest
C9_Witness ==
    /\ Resolved
    /\ OvertoneHits(freq) # {}
    /\ First(OvertoneHits(freq)) > 1
    /\ detected_note = <<note_map[First(OvertoneHits(freq))].freq>>
    /\ \E j \in 1..Len(note_map) :
          CentsLess(note_map[j].freq, detected_note[1], freq)

\* binding j is a nearest-cents match of x, less than 50 cents away, and no
\* overtone of it is near x
NearestUnrelated(j, x) ==
    /\ CentsWithinTol(note_map[j].freq, x)
    /\ \A k \in 1..Len(note_map) : ~CentsLess(note_map[k].freq, note_map[j].freq, x)
    /\ j \notin OvertoneHits(x)

\* C10 as claimed: a frequency near 2*f_low for a binding f_low that is also
\* the nearest-cents match of an unrelated binding f_other resolves to such
\* an f_low.
C10_AsClaimed ==
    Resolved =>
        ((\E i, j \in 1..Len(note_map) :
             Near(note_map[i].freq, 2, 1, freq) /\ NearestUnrelated(j, freq))
         => \E i \in 1..Len(note_map) :
                Near(note_map[i].freq, 2, 1, freq) /\ detected_note = <<note_map[i].freq>>)

\* C10 amended: such a frequency never resolves to f_other: it resolves to
\* the first binding in binding order with an overtone near it, which is
\* f_low when no binding before f_low has one.
C10_HarmonicPriority ==
    Resolved =>
        \A i, j \in 1..Len(note_map) :
            Near(note_map[i].freq, 2, 1, freq) /\ NearestUnrelated(j, freq)
                => /\ detected_note # None
                   /\ detected_note # <<note_map[j].freq>>
                   /\ \E k \in OvertoneHits(freq) : detected_note = <<note_map[k].freq>>
                   /\ (\A k \in 1..(i - 1) : k \notin OvertoneHits(freq))
                         => detected_note = <<note_map[i].freq>>

\* f_low wins over a nearer unrelated binding that comes first in the order
C10_Witness ==
    /\ Resolved
    /\ \E i, j \in 1..Len(note_map) :
          /\ j < i
          /\ Near(note_map[i].freq, 2, 1, freq)
          /\ NearestUnrelated(j, freq)
          /\ detected_note = <<note_map[i].freq>>

\* C11: a frequency below 50 Hz or above 1000 Hz resolves to none, also when
\* an overtone of a binding is near it; 50 Hz and 1000 Hz themselves pass the
\* range check and are matched like any other frequency.
C11_RangeCheck ==
    pc = "resolved" =>
        /\ freq < MinFreq \/ freq > MaxFreq => detected_note = None
        /\ freq \in {MinFreq, MaxFreq} /\ OvertoneHits(freq) # {}
              => detected_note = <<note_map[First(OvertoneHits(freq))].freq>>
        /\ freq \in {MinFreq, MaxFreq} /\ OvertoneHits(freq) = {}
              /\ (\E i \in 1..Len(note_map) : CentsWithinTol(note_map[i].freq, freq))
              => detected_note # None

\* 1000 Hz resolves through 2 * 500 Hz
C11_Witness ==
    /\ pc = "resolved"
    /\ freq = MaxFreq
    /\ detected_note = <<500>>

\* a frequency just outside the range, near an overtone, resolves to none
C11_WitnessOutside ==
    /\ pc = "resolved"
    /\ freq > MaxFreq
    /\ OvertoneHits(freq) # {}
    /\ detected_note = None

\* C12: when no overtone of a binding is near the frequency, the resolver
\* answers a binding of smallest cents distance if that distance is below 50
\* cents and none otherwise; with bindings 110 Hz and 116 Hz, 113 Hz resolves
\* to 116 Hz (45.4 cents against 46.6).
C12_NearestCents ==
    Resolved /\ OvertoneHits(freq) = {} =>
        /\ (\E i \in 1..Len(note_map) : CentsWithinTol(note_map[i].freq, freq))
              => /\ detected_note # None
                 /\ CentsWithinTol(detected_note[1], freq)
                 /\ \E i \in 1..Len(note_map) : note_map[i].freq = detected_note[1]
                 /\ \A k \in 1..Len(note_map) :
                       ~CentsLess(note_map[k].freq, detected_note[1], freq)
        /\ (\A i \in 1..Len(note_map) : ~CentsWithinTol(note_map[i].freq, freq))
              => detected_note = None
        /\ {note_map[i].freq : i \in 1..Len(note_map)} = {110, 116} /\ freq = 113
              => detected_note = <<116>>

\* 113 Hz against the bindings 110 Hz, 116 Hz in that order
C12_Witness ==
    /\ pc = "resolved"
    /\ Len(note_map) = 2
    /\ note_map[1].freq = 110
    /\ note_map[2].freq = 116
    /\ freq = 113
    /\ detected_note = <<116>>

----------------------------------------------------------------------------
(* Claims about the controller, checked under Spec *)

SameTarget(e, g) == e.dev = g.dev /\ e.target = g.target

\* presses minus releases of the target of e among the first k events
Balance(k, e) ==
    Cardinality({i \in 1..k : SameTarget(events[i], e) /\ events[i].op = "press"})
  - Cardinality({i \in 1..k : SameTarget(events[i], e) /\ events[i].op = "release"})

\* the injector call that press(type, identifier) of binding b is
TargetOf(b) ==
    IF b.type = Key THEN [dev |-> "keyboard", target |-> b.action]
    ELSE [dev |-> "mouse", target |-> ButtonOf(b.action)]

BoundActions == {note_map[i] : i \in 1..Len(note_map)}

\* a press of b's target was sent and no release of it was sent later
Unreleased(b) ==
    \E k \in 1..Len(events) :
        /\ events[k].op = "press"
        /\ SameTarget(events[k], TargetOf(b))
        /\ \A m \in (k + 1)..Len(events) :
              ~(events[m].op = "release" /\ SameTarget(events[m], TargetOf(b)))

\* a step in which the callback processes one frame
FrameStep == cb = "running" /\ cb' = "idle"

\* C1 as claimed: at most one action identifier is asserted at any instant.
C1_AsClaimed == Cardinality(active_actions) <= 1

\* C2 as claimed: the events sent for one action alternate press, release,
\* press, ... starting with a press.
C2_AsClaimed ==
    \A k \in 1..Len(events) :
        /\ events[k].op = "press" => Balance(k - 1, events[k]) = 0
        /\ events[k].op = "release" => Balance(k - 1, events[k]) = 1

\* C3: a frame that resolves to binding B sends exactly one press, for
\* action(B), when action(B) is not asserted, and sends nothing and leaves
\* active_actions unchanged when it is.
C3_PressOnce ==
    [][FrameStep /\ detected_note' # None =>
          LET b == Lookup(note_map, detected_note'[1]) IN
          IF ActionId(b) \in active_actions
          THEN events' = events /\ active_actions' = active_actions
          ELSE /\ events' = Append(events,
                      Event("press", TargetOf(b).dev, TargetOf(b).target, clock))
               /\ active_actions' = active_actions \cup {ActionId(b)}]_vars

\* the second of two consecutive frames resolving to one binding sent nothing
C3_Witness ==
    /\ cb = "idle"
    /\ clock = 2
    /\ detected_note # None
    /\ Len(events) = 1
    /\ events[1].op = "press"
    /\ events[1].t = 1
    /\ active_actions = {ActionId(Lookup(note_map, detected_note[1]))}

\* C4 as claimed: active_actions holds exactly the actions with a press
\* sent and no later release sent.
C4_AsClaimed ==
    active_actions = {ActionId(b) : b \in {x \in BoundActions : Unreleased(x)}}

\* C5 as claimed: a no-match frame sends one release for each action that
\* was asserted before it, and nothing else, and leaves none asserted.
C5_AsClaimed ==
    [][FrameStep /\ detected_note' = None =>
          /\ active_actions' = {}
          /\ Len(events') = Len(events) + Cardinality(active_actions)
          /\ \A b \in BoundActions :
                ActionId(b) \in active_actions =>
                    \E k \in (Len(events) + 1)..Len(events') :
                        /\ events'[k].op = "release"
                        /\ SameTarget(events'[k], TargetOf(b))]_vars

\* C6 as claimed: two presses of one action are never less than the minimum
\* inter-trigger interval apart.
C6_AsClaimed ==
    \A i, j \in 1..Len(events) :
        i < j /\ events[i].op = "press" /\ events[j].op = "press"
              /\ SameTarget(events[i], events[j])
            => events[j].t - events[i].t >= MinInterval

C8_AsClaimed ==
    pc = "done" =>
        \A k \in 1..Len(events) :
            events[k].op = "press" =>
                \E m \in (k + 1)..Len(events) :
                    events[m].op = "release" /\ SameTarget(events[m], events[k])

DuplicateFreq(cfg) ==
    \E i, j \in 1..Len(cfg) : i # j /\ cfg[i].freq = cfg[j].freq

\* C16 as claimed: with two bindings of one frequency in the configuration,
\* initialization fails, no stream is created and no binding is dropped.
C16_AsClaimed ==
    DuplicateFreq(config) =>
        /\ pc = "failed"
        /\ stream = "absent"
        /\ Len(note_map) = Len(config)

\* C18 as claimed: what release_actions releases for an action is the key or
\* button that trigger_action pressed for it, so every release sent follows a
\* press of the same key or button.
C18_AsClaimed ==
    \A k \in 1..Len(events) :
        events[k].op = "release" =>
            \E i \in 1..(k - 1) :
                events[i].op = "press" /\ SameTarget(events[i], events[k])

\* C19: a frame that resolves to binding B changes the asserted state of
\* action(B) only and sends no release: every other action stays as it was.
C19_OthersUntouched ==
    [][FrameStep /\ detected_note' # None =>
          LET a == ActionId(Lookup(note_map, detected_note'[1])) IN
          /\ active_actions' \ {a} = active_actions \ {a}
          /\ a \in active_actions'
          /\ \A k \in (Len(events) + 1)..Len(events') : events'[k].op # "release"]_vars

\* an action pressed by an earlier frame is still asserted after a frame
\* that resolved to another binding
C19_Witness ==
    /\ cb = "idle"
    /\ clock = 2
    /\ detected_note # None
    /\ Cardinality(active_actions) = 2
    /\ Len(events) = 2
    /\ events[1].op = "press" /\ events[1].t = 1
    /\ events[2].op = "press" /\ events[2].t = 2

----------------------------------------------------------------------------
(* The peak search and sub-bin refinement of process_audio alone *)

\* min_freq of process_audio
min_freq == 50

\* chunk_size and sample_rate of the stream: the first gives min_bin = 1,
\* the second min_bin = 2
Geometries ==
    { [chunk_size |-> 8, sample_rate |-> 400],
      [chunk_size |-> 8, sample_rate |-> 200] }

\* len(magnitudes) of np.fft.rfft over chunk_size samples
NBins(g) == g.chunk_size \div 2 + 1

\* min_bin = max(1, int(min_freq * chunk_size / sample_rate))
MinBin(g) == Max(1, (min_freq * g.chunk_size) \div g.sample_rate)

\* int(len(magnitudes) * 0.8), the exclusive end of spectrum_segment
SegmentEnd(g) == (NBins(g) * 8) \div 10

RECURSIVE Pow2(_)
Pow2(k) == IF k = 0 THEN 1 ELSE 2 * Pow2(k - 1)

\* the powers a bin can hold: 2^0 .. 2^MaxLevel
Magnitudes == {Pow2(k) : k \in 0..MaxLevel}

\* the power spectra of one frame, indexed from 0 as in the code
Spectra(g) == [0..(NBins(g) - 1) -> Magnitudes]

\* np.argmax(magnitudes[lo:hi]) + lo: the first maximum of bins lo..hi-1
ArgMax(m, lo, hi) ==
    CHOOSE i \in lo..(hi - 1) :
        \A j \in lo..(hi - 1) : m[j] <= m[i] /\ (j < i => m[j] < m[i])

\* np.log of a power of two, in units of ln 2 (the unit cancels in delta)
RECURSIVE Log2(_)
Log2(x) == IF x <= 1 THEN 0 ELSE 1 + Log2(x \div 2)

\* numerator and denominator of delta = (y0 - y2) / (2*(y0 - 2*y1 + y2))
DeltaNum(y0, y1, y2) == y0 - y2

DeltaDenNoTwo(y0, y1, y2) == y0 - 2 * y1 + y2

DeltaDen(y0, y1, y2) == 2 * (y0 - 2 * y1 + y2)

\* if 1 < peak_bin < len(magnitudes)-1
Interpolates(g, peak_bin) == 1 < peak_bin /\ peak_bin < NBins(g) - 1

\* the frame after the peak search, the threshold test and the refinement
Refined(g, m) ==
    LET peak_bin == ArgMax(m, MinBin(g), SegmentEnd(g))
        silent == m[peak_bin] < DetectionThresh
        interp == ~silent /\ Interpolates(g, peak_bin)
        y0 == Log2(m[peak_bin - 1])
        y1 == Log2(m[peak_bin])
        y2 == Log2(m[peak_bin + 1])
    IN [ chunk_size |-> g.chunk_size, sample_rate |-> g.sample_rate,
         magnitudes |-> m, peak_bin |-> peak_bin, silent |-> silent,
         interpolated |-> interp,
         num |-> IF interp THEN DeltaNum(y0, y1, y2) ELSE 0,
         den |-> IF interp THEN DeltaDen(y0, y1, y2) ELSE 0 ]

RefineInit ==
    /\ \E g \in Geometries : \E m \in Spectra(g) :
           frame = [ chunk_size |-> g.chunk_size, sample_rate |-> g.sample_rate,
                     magnitudes |-> m, peak_bin |-> 0, silent |-> FALSE,
                     interpolated |-> FALSE, num |-> 0, den |-> 0 ]
    /\ config = <<>>
    /\ note_map = <<>>
    /\ active_actions = {}
    /\ events = <<>>
    /\ pc = "refine"
    /\ stream = "created"
    /\ cb = "running"
    /\ clock = 0
    /\ forced = 0
    /\ freq = 0
    /\ detected_note = None

Refine ==
    /\ pc = "refine"
    /\ frame' = Refined([chunk_size |-> frame.chunk_size,
                         sample_rate |-> frame.sample_rate], frame.magnitudes)
    /\ pc' = "refined"
    /\ UNCHANGED <<config, note_map, active_actions, events, stream, cb, clock,
                   forced, freq, detected_note>>

RefineNext == Refine

RefineSpec == RefineInit /\ [][RefineNext]_vars

----------------------------------------------------------------------------
(* Claims about injector failures, checked under FailSpec *)

LastOp(evs) == IF evs = <<>> THEN "none" ELSE evs[Len(evs)].op

\* C13 as claimed: when the press of action A fails, A is tracked as
\* asserted all the same and later frames go on being processed.
C13_AsClaimed ==
    [][FrameStep /\ events' # events /\ LastOp(events') = "press_failed" =>
          /\ ActionId(Lookup(note_map, detected_note'[1])) \in active_actions'
          /\ stream' = "active"]_vars

\* C14 as claimed: when one release fails during a pass of release_actions,
\* every other asserted action is released and removed in that pass.
C14_AsClaimed ==
    [][events' # events /\ LastOp(events') = "release_failed" =>
          /\ Cardinality(active_actions') <= 1
          /\ Len(events') = Len(events) + Cardinality(active_actions)]_vars

----------------------------------------------------------------------------
(* Claims about the refinement, checked under RefineSpec *)

RefinedFrame == pc = "refined" /\ ~frame.silent

FrameGeometry == [chunk_size |-> frame.chunk_size, sample_rate |-> frame.sample_rate]

\* the log-magnitude of bin i of the frame
Y(i) == Log2(frame.magnitudes[i])

\* C17 as claimed: an above-threshold frame whose peak bin has both
\* neighbours inside the spectrum (1 <= peak_bin <= nbins - 2) is interpolated.
C17_AsClaimed ==
    RefinedFrame /\ 1 <= frame.peak_bin /\ frame.peak_bin <= NBins(FrameGeometry) - 2
        => frame.interpolated

LocalPeak ==
    /\ Y(frame.peak_bin - 1) <= Y(frame.peak_bin)
    /\ Y(frame.peak_bin + 1) <= Y(frame.peak_bin)
    /\ ~(Y(frame.peak_bin - 1) = Y(frame.peak_bin) /\ Y(frame.peak_bin + 1) = Y(frame.peak_bin))

====
